---- MODULE Spec2Model ----
(***************************************************************************)
(* A model of solve_schedule (src/or_tools.py): the expansion of orders    *)
(* into task instances, the constraint model handed to the CP-SAT solver,  *)
(* the solver's answer (a status and, on success, an assignment that       *)
(* satisfies every constraint of the model that was built), and the        *)
(* interpretation of the assignment into the returned result.              *)
(*                                                                         *)
(* The wall-clock anchor (start_time) and the rendered date strings of the *)
(* schedule entries are not modelled; every other field of the result is.  *)
(***************************************************************************)
EXTENDS Integers, Sequences, FiniteSets, TLC

VARIABLES pc, machines, products, setup_times, orders,
          horizon, all_tasks, machine_tasks, order_info,
          task_id, order_id, next_order,
          model, status, solution, result

vars == <<pc, machines, products, setup_times, orders,
          horizon, all_tasks, machine_tasks, order_info,
          task_id, order_id, next_order,
          model, status, solution, result>>

inputs == <<machines, products, setup_times, orders>>

(***************************************************************************)
(* Bounds of the model.                                                    *)
(***************************************************************************)
\* the solver's time values are drawn from 0..MaxTime and the critical points
MaxTime == 4
\* the largest quantity of an order in the inputs
MaxQuantity == 2
\* how far above the least satisfying value the solver may leave a violation
MaxSlack == 1

(***************************************************************************)
(* Program constants.                                                      *)
(***************************************************************************)
HorizonFloor == 1000
HorizonFactor == 3
PenaltyWeight == 1000
\* last_task_end of an order for which no task was created (Python None)
None == -1

(***************************************************************************)
(* Generic helpers.                                                        *)
(***************************************************************************)
Max(S) == CHOOSE x \in S : \A y \in S : y <= x
Min(S) == CHOOSE x \in S : \A y \in S : x <= y

RECURSIVE SumSeq(_)
SumSeq(s) == IF s = <<>> THEN 0 ELSE Head(s) + SumSeq(Tail(s))

RECURSIVE SubsetSums(_, _)
SubsetSums(s, cap) ==
    IF s = <<>> THEN {0}
    ELSE LET r == SubsetSums(Tail(s), cap)
         IN  r \cup {x + Head(s) : x \in {y \in r : y + Head(s) <= cap}}

RECURSIVE SetToSeq(_)
SetToSeq(S) ==
    IF S = {} THEN <<>>
    ELSE LET x == CHOOSE y \in S : TRUE IN <<x>> \o SetToSeq(S \ {x})

(***************************************************************************)
(* The inputs.                                                             *)
(***************************************************************************)
Machine(n, ops) == [name |-> n, operations |-> ops]
Task(op, d) == [operation |-> op, duration |-> d]
Product(n, ts) == [name |-> n, tasks |-> ts]
Order(p, q, d) == [product |-> p, quantity |-> q, deadline |-> d]
Input(ms, ps, st, os) ==
    [machines |-> ms, products |-> ps, setup_times |-> st, orders |-> os]

\* Scenarios A and B of the specification
ScenarioAB ==
    { Input(<<Machine("A", {"cut"}), Machine("B", {"paint"})>>,
            <<Product("P1", <<Task("cut", 2), Task("paint", 3)>>)>>,
            <<>>,
            <<Order("P1", 1, d)>>) : d \in {10, 3} }

\* one order of several units; two machines support "cut"
ScenarioUnits ==
    { Input(<<Machine("A", {"cut"}), Machine("B", {"cut", "paint"})>>,
            <<Product("P1", <<Task("cut", 1), Task("paint", 1)>>)>>,
            <<>>,
            <<Order("P1", q, d)>>) : q \in 1..MaxQuantity, d \in {2, 3} }

\* Scenario C of the specification, and the same with a third product between
ScenarioSetup ==
    { Input(<<Machine("A", {"cut"})>>,
            <<Product("P1", <<Task("cut", 1)>>), Product("P2", <<Task("cut", 1)>>),
              Product("P3", <<Task("cut", 1)>>)>>,
            ("P1-P2" :> 4),
            os) : os \in { <<Order("P1", 1, 10), Order("P2", 1, 10)>>,
                           <<Order("P1", 1, 10), Order("P3", 1, 10),
                             Order("P2", 1, 1)>> } }

\* Scenario D of the specification: an operation no machine supports, an
\* empty task list, an unknown product
ScenarioGaps ==
    { Input(<<Machine("A", {"cut"})>>,
            <<Product("P1", <<Task("cut", 1), Task("weld", 1)>>),
              Product("P2", <<Task("weld", 1)>>),
              Product("P3", <<>>)>>,
            <<>>,
            os) : os \in { <<Order("P1", 1, 5)>>,
                           <<Order("P2", 1, 5)>>,
                           <<Order("P3", 1, 5)>>,
                           <<Order("PX", 1, 5)>>,
                           <<Order("PX", 1, 5), Order("P1", 1, 0)>>,
                           <<Order("P1", 1, 5), Order("P2", 1, 5)>> } }

\* a long task with a deadline and a changeover longer than the penalty weight
ScenarioWeight ==
    { Input(<<Machine("A", {"cut"})>>,
            <<Product("P1", <<Task("cut", 500)>>), Product("P2", <<Task("cut", 1)>>)>>,
            ("P1-P2" :> 1002),
            <<Order("P1", 1, 500), Order("P2", 1, 2000)>>) }

\* changeovers that do not fit into the horizon in either order
ScenarioInfeasible ==
    { Input(<<Machine("A", {"cut"})>>,
            <<Product("P1", <<Task("cut", 1)>>), Product("P2", <<Task("cut", 1)>>)>>,
            ("P1-P2" :> 2000) @@ ("P2-P1" :> 2000),
            <<Order("P1", 1, 5), Order("P2", 1, 5)>>) }

Inputs == ScenarioAB \cup ScenarioUnits \cup ScenarioSetup \cup ScenarioGaps
          \cup ScenarioWeight \cup ScenarioInfeasible

(***************************************************************************)
(* Horizon Estimator, lines 23-29.                                         *)
(***************************************************************************)
TotalWork(ps, os) ==
    SumSeq([i \in 1..Len(ps) |->
              SumSeq([k \in 1..Len(ps[i].tasks) |-> ps[i].tasks[k].duration])
              * SumSeq([o \in 1..Len(os) |->
                          IF os[o].product = ps[i].name THEN os[o].quantity ELSE 0])])

Horizon(ps, os) ==
    LET w == HorizonFactor * TotalWork(ps, os)
    IN  IF w > HorizonFloor THEN w ELSE HorizonFloor

(***************************************************************************)
(* Task Expander, lines 41-110.                                            *)
(***************************************************************************)
\* next((p for p in products if p['name'] == product_name), None): 0 is None
FindProduct(name) ==
    LET hit == {i \in 1..Len(products) : products[i].name = name}
    IN  IF hit = {} THEN 0 ELSE Min(hit)

\* seeded fault: the last matching machine is taken
FindMachineLast(operation) ==
    LET hit == {i \in 1..Len(machines) : operation \in machines[i].operations}
    IN  IF hit = {} THEN 0 ELSE Max(hit)

\* next((m for m in machines if operation in m['operations']), None): 0 is None
FindMachine(operation) ==
    LET hit == {i \in 1..Len(machines) : operation \in machines[i].operations}
    IN  IF hit = {} THEN 0 ELSE Min(hit)

\* the positions of the product's tasks for which a machine is found
Created(product) ==
    SelectSeq([k \in 1..Len(product.tasks) |-> k],
              LAMBDA k : FindMachine(product.tasks[k].operation) # 0)

\* the task_info records of one order, in creation order; unit and step
\* record which unit and which product task an instance was made for
OrderTasks(order, product, first_id, oid) ==
    LET kept == Created(product)
        n == Len(kept)
    IN  [p \in 1..(order.quantity * n) |->
           LET k == kept[((p - 1) % n) + 1]
           IN  [id |-> first_id + p - 1,
                order |-> order.product,
                operation |-> product.tasks[k].operation,
                machine |-> machines[FindMachine(product.tasks[k].operation)].name,
                duration |-> product.tasks[k].duration,
                product |-> order.product,
                order_id |-> oid,
                unit |-> (p - 1) \div n,
                step |-> k]]

\* seeded fault: prev_task_end is never carried to the next task
PrecedencesUnchained(ts) == {}

\* model.Add(start_var >= prev_task_end), lines 82-83: <<later, earlier>>
Precedences(ts) ==
    { <<ts[p].id, ts[p - 1].id>> : p \in {q \in 2..Len(ts) : ts[q].unit = ts[q - 1].unit} }

\* order_info[order_id]['last_task_end'], line 104
LastTaskEnd(ts) == IF ts = <<>> THEN None ELSE ts[Len(ts)].id

\* machine_tasks[machine['name']].append(task_info), line 100
AppendTasks(mt, ts) ==
    [m \in DOMAIN mt |->
       mt[m] \o SelectSeq([p \in 1..Len(ts) |-> ts[p].id],
                          LAMBDA i : ts[i - ts[1].id + 1].machine = m)]

EmptyModel ==
    [precedence |-> {}, soft_deadline |-> {}, no_overlap |-> {}, setup |-> {},
     minimize |-> FALSE]

Init ==
    /\ \E in \in Inputs :
         /\ machines = in.machines
         /\ products = in.products
         /\ setup_times = in.setup_times
         /\ orders = in.orders
    /\ horizon = Horizon(products, orders)
    /\ all_tasks = <<>>
    /\ machine_tasks = [m \in {machines[i].name : i \in 1..Len(machines)} |-> <<>>]
    /\ order_info = <<>>
    /\ task_id = 0
    /\ order_id = 0
    /\ next_order = 1
    /\ model = EmptyModel
    /\ status = "NONE"
    /\ solution = [start |-> <<>>, violation |-> <<>>]
    /\ result = [status |-> "NONE"]
    /\ pc = "expand"

\* order_info[order_id] = {...}, lines 55-61, with last_task_end as of line 104
OrderRecord(order, ts) ==
    [product |-> order.product, deadline |-> order.deadline,
     quantity |-> order.quantity, last_task_end |-> LastTaskEnd(ts)]

\* model.Add(last_task_end <= deadline + order_violation), line 108
SoftDeadline(oid, order, ts) ==
    [order_id |-> oid, task |-> LastTaskEnd(ts), deadline |-> order.deadline]

\* lines 48-49: the order's product is not found, the order is skipped
SkipOrder ==
    /\ pc = "expand"
    /\ next_order <= Len(orders)
    /\ FindProduct(orders[next_order].product) = 0
    /\ next_order' = next_order + 1
    /\ UNCHANGED <<pc, inputs, horizon, all_tasks, machine_tasks, order_info,
                   task_id, order_id, model, status, solution, result>>

\* lines 51-110: the order's task instances, their precedence chain and the
\* order's soft deadline
ExpandOrder ==
    /\ pc = "expand"
    /\ next_order <= Len(orders)
    /\ FindProduct(orders[next_order].product) # 0
    /\ LET order == orders[next_order]
           product == products[FindProduct(order.product)]
           ts == OrderTasks(order, product, task_id, order_id)
       IN  /\ ts # <<>>
           /\ all_tasks' = all_tasks \o ts
           /\ machine_tasks' = AppendTasks(machine_tasks, ts)
           /\ order_info' = Append(order_info, OrderRecord(order, ts))
           /\ model' = [model EXCEPT
                          !.precedence = @ \cup Precedences(ts),
                          !.soft_deadline = @ \cup {SoftDeadline(order_id, order, ts)}]
           /\ task_id' = task_id + Len(ts)
    /\ order_id' = order_id + 1
    /\ next_order' = next_order + 1
    /\ UNCHANGED <<pc, inputs, horizon, status, solution, result>>

\* line 108 when no task of the order was created: last_task_end is None and
\* None <= deadline + order_violation raises TypeError out of solve_schedule
ExpandOrderRaises ==
    /\ pc = "expand"
    /\ next_order <= Len(orders)
    /\ FindProduct(orders[next_order].product) # 0
    /\ LET order == orders[next_order]
           product == products[FindProduct(order.product)]
           ts == OrderTasks(order, product, task_id, order_id)
       IN  /\ ts = <<>>
           /\ order_info' = Append(order_info, OrderRecord(order, ts))
    /\ pc' = "raised"
    /\ UNCHANGED <<inputs, horizon, all_tasks, machine_tasks, task_id, order_id,
                   next_order, model, status, solution, result>>

(***************************************************************************)
(* Constraint Model Builder, lines 112-150.                                *)
(***************************************************************************)
TaskOf(id) == all_tasks[id + 1]

\* setup_key = f"{task_i['product']}-{task_j['product']}", lines 127 and 215
SetupKey(from, to) == from \o "-" \o to

\* setup_times.get(setup_key, 0), lines 128 and 216
SetupLookup(key) == IF key \in DOMAIN setup_times THEN setup_times[key] ELSE 0

\* seeded fault: exclusivity only for machines with more than two tasks
NoOverlapGroupsOffByOne ==
    { {machine_tasks[m][p] : p \in 1..Len(machine_tasks[m])} :
        m \in {n \in DOMAIN machine_tasks : Len(machine_tasks[n]) > 2} }

\* model.AddNoOverlap(intervals) for every machine with tasks, lines 113-116
NoOverlapGroups ==
    { {machine_tasks[m][p] : p \in 1..Len(machine_tasks[m])} :
        m \in {n \in DOMAIN machine_tasks : Len(machine_tasks[n]) > 0} }

\* seeded fault: setup constraints only between tasks that are neighbours in the
\* machine's task list
SetupConstraintsNeighbours ==
    UNION { { [i |-> machine_tasks[m][a], j |-> machine_tasks[m][a + 1],
               setup_time |-> SetupLookup(SetupKey(TaskOf(machine_tasks[m][a]).product,
                                                   TaskOf(machine_tasks[m][a + 1]).product))] :
                a \in { x \in 1..(Len(machine_tasks[m]) - 1) :
                          SetupLookup(SetupKey(TaskOf(machine_tasks[m][x]).product,
                                               TaskOf(machine_tasks[m][x + 1]).product)) > 0 } } :
            m \in {n \in DOMAIN machine_tasks :
                     Len(machine_tasks[n]) > 1 /\ DOMAIN setup_times # {}} }

\* lines 119-139: one constraint per ordered pair i # j of a machine's tasks
\* whose setup time is positive
SetupConstraints ==
    UNION { { [i |-> machine_tasks[m][a], j |-> machine_tasks[m][b],
               setup_time |-> SetupLookup(SetupKey(TaskOf(machine_tasks[m][a]).product,
                                                   TaskOf(machine_tasks[m][b]).product))] :
                <<a, b>> \in { <<x, y>> \in (1..Len(machine_tasks[m])) \X (1..Len(machine_tasks[m])) :
                                 /\ x # y
                                 /\ SetupLookup(SetupKey(TaskOf(machine_tasks[m][x]).product,
                                                         TaskOf(machine_tasks[m][y]).product)) > 0 } } :
            m \in {n \in DOMAIN machine_tasks :
                     Len(machine_tasks[n]) > 1 /\ DOMAIN setup_times # {}} }

\* lines 112-139
AddMachineConstraints ==
    /\ pc = "expand"
    /\ next_order > Len(orders)
    /\ model' = [model EXCEPT !.no_overlap = NoOverlapGroups,
                              !.setup = SetupConstraints]
    /\ pc' = "objective"
    /\ UNCHANGED <<inputs, horizon, all_tasks, machine_tasks, order_info,
                   task_id, order_id, next_order, status, solution, result>>

\* lines 141-150: the makespan and the objective exist only if a task exists
AddObjective ==
    /\ pc = "objective"
    /\ model' = [model EXCEPT !.minimize = (all_tasks # <<>>)]
    /\ pc' = "solve"
    /\ UNCHANGED <<inputs, horizon, all_tasks, machine_tasks, order_info,
                   task_id, order_id, next_order, status, solution, result>>

(***************************************************************************)
(* Solver Adapter, lines 156-160.  CP-SAT answers with a status; with      *)
(* OPTIMAL or FEASIBLE it holds a value for every variable, and the values *)
(* satisfy every constraint of the model; with OPTIMAL no satisfying       *)
(* assignment has a smaller objective.                                     *)
(***************************************************************************)
TaskIds == 0..(Len(all_tasks) - 1)
OrderIds == 0..(Len(order_info) - 1)

\* the values the solver's search is followed over: 0..MaxTime and the sums
\* of durations and setup times (the starts of left-shifted schedules),
\* inside the variables' domain [0, horizon] of lines 52, 77, 78 and 143
TimeDomain ==
    LET durations == [i \in 1..Len(all_tasks) |-> all_tasks[i].duration]
        keys == SetToSeq({k \in DOMAIN setup_times : setup_times[k] > 0})
        setups == [i \in 1..Len(keys) |-> setup_times[keys[i]]]
    IN  {t \in 0..MaxTime : t <= horizon} \cup SubsetSums(durations \o setups, horizon)

\* NewIntervalVar(start_var, duration, end_var), line 79
EndOf(start, id) == start[id] + TaskOf(id).duration

\* AddMaxEquality(makespan, all_ends), line 145
Makespan(start) == Max({EndOf(start, id) : id \in TaskIds})

\* makespan + 1000 * total_violation, lines 149-150
Objective(a) ==
    Makespan(a.start)
    + PenaltyWeight * SumSeq([i \in 1..Len(order_info) |-> a.violation[i - 1]])

\* the constraints on the start and end variables alone
SatisfiesTimes(m, start) ==
    /\ \A id \in TaskIds : start[id] \in 0..horizon /\ EndOf(start, id) \in 0..horizon
    /\ \A c \in m.precedence : start[c[1]] >= EndOf(start, c[2])
    /\ \A g \in m.no_overlap : \A i \in g : \A j \in g \ {i} :
          EndOf(start, i) <= start[j] \/ EndOf(start, j) <= start[i]
    /\ \A c \in m.setup : \E is_before \in BOOLEAN :
          /\ is_before => /\ start[c.j] >= EndOf(start, c.i) + c.setup_time
                          /\ EndOf(start, c.i) <= start[c.j]
          /\ ~is_before => start[c.i] >= EndOf(start, c.j)

\* every constraint of the model
Satisfies(m, a) ==
    /\ SatisfiesTimes(m, a.start)
    /\ \A o \in OrderIds : a.violation[o] \in 0..horizon
    /\ \A c \in m.soft_deadline :
          EndOf(a.start, c.task) <= c.deadline + a.violation[c.order_id]

\* the least value of an order's violation variable under the given starts
LeastViolation(m, start, o) ==
    Max({0} \cup {EndOf(start, c.task) - c.deadline :
                    c \in {d \in m.soft_deadline : d.order_id = o}})

\* the satisfying assignments the search is followed over
Assignments(m) ==
    LET starts == {st \in [TaskIds -> TimeDomain] : SatisfiesTimes(m, st)}
        all == { [start |-> st,
                  violation |-> [o \in OrderIds |-> LeastViolation(m, st, o) + sl[o]]] :
                   <<st, sl>> \in starts \X [OrderIds -> 0..MaxSlack] }
    IN  {a \in all : Satisfies(m, a)}

\* the assignments the solver may report under a status: any satisfying one,
\* and with OPTIMAL and an objective only those of least objective
Reportable(m, s) ==
    LET feasible == Assignments(m)
    IN  IF s = "OPTIMAL" /\ m.minimize /\ feasible # {}
        THEN LET best == Min({Objective(b) : b \in feasible})
             IN  {a \in feasible : Objective(a) = best}
        ELSE feasible

\* line 160 with status OPTIMAL or FEASIBLE
SolveSuccess ==
    /\ pc = "solve"
    /\ \E s \in {"OPTIMAL", "FEASIBLE"} : \E a \in Reportable(model, s) :
          /\ status' = s
          /\ solution' = a
    /\ pc' = "solved"
    /\ UNCHANGED <<inputs, horizon, all_tasks, machine_tasks, order_info,
                   task_id, order_id, next_order, model, result>>

\* line 160 with another status: INFEASIBLE when no assignment satisfies the
\* model, UNKNOWN when the time limit ends the search, MODEL_INVALID when the
\* solver rejects the model
SolveFailure ==
    /\ pc = "solve"
    /\ \E s \in {"INFEASIBLE", "UNKNOWN", "MODEL_INVALID"} :
          /\ s = "INFEASIBLE" => Assignments(model) = {}
          /\ status' = s
    /\ pc' = "solved"
    /\ UNCHANGED <<inputs, horizon, all_tasks, machine_tasks, order_info,
                   task_id, order_id, next_order, model, solution, result>>

(***************************************************************************)
(* Solution Interpreter, lines 169-276.                                    *)
(***************************************************************************)
\* schedule.append({...}), lines 174-193
ScheduleEntry(t) ==
    [task_id |-> t.id, order |-> t.order, operation |-> t.operation,
     machine |-> t.machine, product |-> t.product,
     start |-> solution.start[t.id], end |-> EndOf(solution.start, t.id),
     duration |-> t.duration, setup_time |-> 0]

\* list.sort(key=lambda x: x['start']), lines 196 and 208: a stable sort
RECURSIVE SortByStart(_)
SortByStart(s) ==
    IF s = <<>> THEN <<>>
    ELSE LET front == SortByStart(SubSeq(s, 1, Len(s) - 1))
             x == s[Len(s)]
             p == Cardinality({i \in 1..Len(front) : front[i].start <= x.start})
         IN  SubSeq(front, 1, p) \o <<x>> \o SubSeq(front, p + 1, Len(front))

\* machine_schedule[machine], lines 199-208
MachineSchedule(sorted, m) ==
    SortByStart(SelectSeq(sorted, LAMBDA e : e.machine = m))

\* seeded fault: the key is built from the following product first
SetupTimeOfReversedKey(sorted, e) ==
    LET tasks == SortByStart(SelectSeq(sorted, LAMBDA x : x.machine = e.machine))
        i == CHOOSE k \in 1..Len(tasks) : tasks[k].task_id = e.task_id
    IN  IF i > 1
        THEN SetupLookup(SetupKey(tasks[i].product, tasks[i - 1].product))
        ELSE 0

\* lines 209-217: the setup time of an entry, from the entry before it on its
\* machine
SetupTimeOf(sorted, e) ==
    LET tasks == MachineSchedule(sorted, e.machine)
        i == CHOOSE k \in 1..Len(tasks) : tasks[k].task_id = e.task_id
    IN  IF i > 1
        THEN SetupLookup(SetupKey(tasks[i - 1].product, tasks[i].product))
        ELSE 0

\* lines 173-221: the schedule, sorted, with setup times, without 'product'
Schedule ==
    LET sorted == SortByStart([i \in 1..Len(all_tasks) |-> ScheduleEntry(all_tasks[i])])
    IN  [i \in 1..Len(sorted) |->
           [task_id |-> sorted[i].task_id, order |-> sorted[i].order,
            operation |-> sorted[i].operation, machine |-> sorted[i].machine,
            start |-> sorted[i].start, end |-> sorted[i].end,
            duration |-> sorted[i].duration,
            setup_time |-> SetupTimeOf(sorted, sorted[i])]]

\* lines 224-238: one entry per order whose violation value is positive
DeadlineViolations ==
    LET late == SelectSeq([i \in 1..Len(order_info) |-> i - 1],
                          LAMBDA o : solution.violation[o] > 0)
    IN  [i \in 1..Len(late) |->
           [product |-> order_info[late[i] + 1].product,
            quantity |-> order_info[late[i] + 1].quantity,
            deadline |-> order_info[late[i] + 1].deadline,
            actual_completion |->
                EndOf(solution.start, order_info[late[i] + 1].last_task_end),
            violation_hours |-> solution.violation[late[i]]]]

\* total_violations, lines 225 and 238
TotalViolations(dv) == SumSeq([i \in 1..Len(dv) |-> dv[i].violation_hours])

\* seeded fault: the solver's status is looked at before the violations
ResultStatusSolverFirst(total_violations) ==
    IF status = "OPTIMAL" THEN "OPTIMAL"
    ELSE IF total_violations > 0 THEN "FEASIBLE_WITH_VIOLATIONS" ELSE "FEASIBLE"

\* lines 241-244
ResultStatus(total_violations) ==
    IF total_violations > 0 THEN "FEASIBLE_WITH_VIOLATIONS"
    ELSE IF status = "OPTIMAL" THEN "OPTIMAL" ELSE "FEASIBLE"

\* lines 246-253
SuccessResult ==
    LET dv == DeadlineViolations
    IN  [status |-> ResultStatus(TotalViolations(dv)),
         makespan |-> IF all_tasks # <<>> THEN Makespan(solution.start) ELSE 0,
         schedule |-> Schedule,
         deadline_violations |-> dv,
         total_violation_hours |-> TotalViolations(dv)]

\* seeded fault: the solver's status is passed through as the result's status
FailureResultRawStatus ==
    [status |-> status,
     message |-> "Solver status: " \o status \o ". Check console for details."]

\* lines 271-274
FailureResult ==
    [status |-> "INFEASIBLE",
     message |-> "Solver status: " \o status \o ". Check console for details."]

\* lines 169-253 and 276
InterpretSuccess ==
    /\ pc = "solved"
    /\ status \in {"OPTIMAL", "FEASIBLE"}
    /\ result' = SuccessResult
    /\ pc' = "done"
    /\ UNCHANGED <<inputs, horizon, all_tasks, machine_tasks, order_info,
                   task_id, order_id, next_order, model, status, solution>>

\* lines 254-276
InterpretFailure ==
    /\ pc = "solved"
    /\ status \notin {"OPTIMAL", "FEASIBLE"}
    /\ result' = FailureResult
    /\ pc' = "done"
    /\ UNCHANGED <<inputs, horizon, all_tasks, machine_tasks, order_info,
                   task_id, order_id, next_order, model, status, solution>>

Next ==
    \/ SkipOrder
    \/ ExpandOrder
    \/ ExpandOrderRaises
    \/ AddMachineConstraints
    \/ AddObjective
    \/ SolveSuccess
    \/ SolveFailure
    \/ InterpretSuccess
    \/ InterpretFailure

Spec == Init /\ [][Next]_vars

(***************************************************************************)
(* The claims.                                                             *)
(***************************************************************************)
Returned == pc = "done"
Success ==
    Returned /\ result.status \in {"OPTIMAL", "FEASIBLE", "FEASIBLE_WITH_VIOLATIONS"}
Entries == 1..Len(result.schedule)
Entry(i) == result.schedule[i]
SameMachine(i, j) == i # j /\ Entry(i).machine = Entry(j).machine

\* C1: in every schedule returned with a success status, two distinct entries
\* on the same machine never overlap in [start, end)
C1_NoMachineOverlap ==
    Success =>
      \A i \in Entries : \A j \in Entries :
         SameMachine(i, j) =>
           Entry(i).end <= Entry(j).start \/ Entry(j).end <= Entry(i).start

\* a returned schedule with two entries on one machine
C1_Witness ==
    Success /\ \E i \in Entries : \E j \in Entries : SameMachine(i, j)

\* b is the created task that follows a in the same unit of the same order
NextInUnit(a, b) ==
    /\ a.order_id = b.order_id /\ a.unit = b.unit /\ a.step < b.step
    /\ ~ \E i \in 1..Len(all_tasks) :
           /\ all_tasks[i].order_id = a.order_id /\ all_tasks[i].unit = a.unit
           /\ a.step < all_tasks[i].step /\ all_tasks[i].step < b.step

\* C2: in every returned schedule each created task of a unit starts no
\* earlier than the end of the preceding created task of the same unit
C2_UnitPrecedence ==
    Success =>
      \A i \in Entries : \A j \in Entries :
         NextInUnit(TaskOf(Entry(i).task_id), TaskOf(Entry(j).task_id)) =>
           Entry(j).start >= Entry(i).end

\* a returned schedule with a chained pair, in which a later unit of an order
\* starts its first task before an earlier unit of the same order does
C2_Witness ==
    /\ Success
    /\ \E i \in Entries : \E j \in Entries :
          NextInUnit(TaskOf(Entry(i).task_id), TaskOf(Entry(j).task_id))
    /\ \E i \in Entries : \E j \in Entries :
          /\ TaskOf(Entry(i).task_id).order_id = TaskOf(Entry(j).task_id).order_id
          /\ TaskOf(Entry(i).task_id).step = TaskOf(Entry(j).task_id).step
          /\ TaskOf(Entry(i).task_id).unit < TaskOf(Entry(j).task_id).unit
          /\ Entry(j).start < Entry(i).start

\* the setup table's value for the change from entry i's product to entry j's
SetupBetween(i, j) ==
    SetupLookup(SetupKey(TaskOf(Entry(i).task_id).product,
                         TaskOf(Entry(j).task_id).product))

Completion(o) ==
    Max({Entry(i).end : i \in {k \in Entries : TaskOf(Entry(k).task_id).order_id = o}})

\* C4: for every order of a returned schedule, violation >= 0 and the latest
\* end over all its task instances is at most deadline + violation
C4_CompletionWithinDeadline ==
    Success =>
      \A o \in OrderIds :
         /\ solution.violation[o] >= 0
         /\ Completion(o) <= order_info[o + 1].deadline + solution.violation[o]

TotalViolation(a) == SumSeq([i \in 1..Len(order_info) |-> a.violation[i - 1]])

\* C5: every assignment that minimizes makespan + 1000 * (sum of violations)
\* also minimizes the sum of violations over all satisfying assignments
C5_PenaltyDominatesMakespan ==
    (pc = "solved" /\ status = "OPTIMAL" /\ model.minimize) =>
      \A b \in Assignments(model) : TotalViolation(solution) <= TotalViolation(b)

\* C6: after OPTIMAL or FEASIBLE the result status is FEASIBLE_WITH_VIOLATIONS
\* exactly when some order's violation is positive and the solver's status
\* otherwise; deadline_violations lists exactly the orders with a positive
\* violation and total_violation_hours is the sum of their violation_hours
C6_ResultClassification ==
    (Returned /\ status \in {"OPTIMAL", "FEASIBLE"}) =>
      LET late == SelectSeq([i \in 1..Len(order_info) |-> i - 1],
                            LAMBDA o : solution.violation[o] > 0)
          dv == result.deadline_violations
      IN  /\ result.status = "FEASIBLE_WITH_VIOLATIONS" <=> late # <<>>
          /\ late = <<>> => result.status = status
          /\ Len(dv) = Len(late)
          /\ \A i \in 1..Len(late) :
                /\ dv[i].product = order_info[late[i] + 1].product
                /\ dv[i].quantity = order_info[late[i] + 1].quantity
                /\ dv[i].deadline = order_info[late[i] + 1].deadline
                /\ dv[i].violation_hours = solution.violation[late[i]]
          /\ result.total_violation_hours
               = SumSeq([i \in 1..Len(dv) |-> dv[i].violation_hours])

\* an optimal answer in which one order is listed and another is not
C6_Witness ==
    /\ Returned /\ status = "OPTIMAL"
    /\ result.status = "FEASIBLE_WITH_VIOLATIONS"
    /\ Len(result.deadline_violations) = 1
    /\ Len(order_info) = 2

\* C7: after INFEASIBLE, MODEL_INVALID or UNKNOWN the result has status
\* INFEASIBLE and a message naming the solver's status, and no other field
C7_FailureResult ==
    (Returned /\ status \in {"INFEASIBLE", "MODEL_INVALID", "UNKNOWN"}) =>
      /\ result.status = "INFEASIBLE"
      /\ DOMAIN result = {"status", "message"}
      /\ result.message = "Solver status: " \o status \o ". Check console for details."

\* a model no assignment satisfies, answered with INFEASIBLE
C7_Witness ==
    Returned /\ status = "INFEASIBLE" /\ all_tasks # <<>>

\* the operations of ordered products that no machine supports
DroppedOperations ==
    UNION { { products[FindProduct(orders[o].product)].tasks[k].operation :
                k \in { y \in 1..Len(products[FindProduct(orders[o].product)].tasks) :
                          FindMachine(products[FindProduct(orders[o].product)]
                                        .tasks[y].operation) = 0 } } :
            o \in {x \in 1..Len(orders) : FindProduct(orders[x].product) # 0} }

\* C8: when a product task of an order names an operation no machine
\* supports, the returned result reports it
C8_UnschedulableReported ==
    (Returned /\ DroppedOperations # {}) =>
      \A op \in DroppedOperations :
         \/ "diagnostics" \in DOMAIN result
         \/ /\ "schedule" \in DOMAIN result
            /\ \E i \in Entries : Entry(i).operation = op

\* C9: for every input the call ends by returning a result with a status
\* field; no error escapes
C9_NoErrorEscapes ==
    /\ pc # "raised"
    /\ Returned => "status" \in DOMAIN result

\* the entries that start before entry i on its machine
Before(i) == {k \in Entries : SameMachine(k, i) /\ Entry(k).start < Entry(i).start}

\* the entry that precedes entry i on its machine by start time
Preceding(i) == CHOOSE k \in Before(i) : \A l \in Before(i) : Entry(l).start <= Entry(k).start

\* C10: the reported setup_time is 0 for the first task on its machine and
\* otherwise the table's value for (product of the preceding task on the
\* machine, product of this task), and the gap to that task is at least it
C10_ReportedSetupTime ==
    Success =>
      \A i \in Entries :
         IF Before(i) = {}
         THEN Entry(i).setup_time = 0
         ELSE /\ Entry(i).setup_time = SetupBetween(Preceding(i), i)
              /\ Entry(i).start - Entry(Preceding(i)).end >= Entry(i).setup_time

\* a returned schedule with a positive reported setup time
C10_Witness ==
    Success /\ \E i \in Entries : Entry(i).setup_time > 0

\* machine list positions whose operations contain op
Supporting(op) == {i \in 1..Len(machines) : op \in machines[i].operations}

\* C11: every created task instance carries the first machine, in machine
\* list order, whose operations contain its operation; the returned entry
\* carries the same machine, so entries with the same operation share a
\* machine even when several machines support the operation
C11_FirstEligibleMachine ==
    /\ \A p \in 1..Len(all_tasks) :
          \E i \in Supporting(all_tasks[p].operation) :
             /\ \A k \in Supporting(all_tasks[p].operation) : i <= k
             /\ all_tasks[p].machine = machines[i].name
    /\ Success =>
         /\ \A i \in Entries : Entry(i).machine = TaskOf(Entry(i).task_id).machine
         /\ \A i \in Entries : \A j \in Entries :
               Entry(i).operation = Entry(j).operation
                 => Entry(i).machine = Entry(j).machine

\* a returned schedule with two entries of an operation two machines support
C11_Witness ==
    /\ Success
    /\ \E i \in Entries : \E j \in Entries :
          /\ i # j
          /\ Entry(i).operation = Entry(j).operation
          /\ Cardinality(Supporting(Entry(i).operation)) > 1

\* the end of the order's last task as the result reports it
\* (actual_completion, line 228)
ActualCompletion(o) == EndOf(solution.start, order_info[o + 1].last_task_end)

\* C12: after OPTIMAL or FEASIBLE every order's reported violation equals
\* max(0, actual_completion - deadline), so deadline_violations lists only
\* orders whose last task ends after the deadline
C12_ViolationIsLateness ==
    (Returned /\ status \in {"OPTIMAL", "FEASIBLE"}) =>
      /\ \A o \in OrderIds :
            solution.violation[o]
              = Max({0, ActualCompletion(o) - order_info[o + 1].deadline})
      /\ \A i \in 1..Len(result.deadline_violations) :
            result.deadline_violations[i].actual_completion
              > result.deadline_violations[i].deadline

====
